---- MODULE Spec2Model ----
(***************************************************************************)
(* Market-structure analytics of mcp-market-data-server: the Volume        *)
(* Profile (calculate_volume_profile), the Fair Value Gap calculator       *)
(* (FVGCalculator), the Opening Range Breakout tool                        *)
(* (financial_orb_analysis), the zone aggregation                          *)
(* (financial_technical_zones) and the indicator calls on a shared frame.  *)
(*                                                                         *)
(* Arithmetic is exact.  A price is an integer number of ticks, one tick   *)
(* being 10^-price_precision (one cent for price_precision = 2), so that   *)
(* round(x, 2) is rounding to a whole tick.  Quantities the code divides   *)
(* are kept as integers in a finer unit, named where they are defined.     *)
(***************************************************************************)
EXTENDS Integers, Sequences, FiniteSets, TLC

VARIABLES
    df,                  \* the bar series handed to the operation
    pc,                  \* position inside calculate_volume_profile
    bar_idx,             \* the bar `for idx, row in df.iterrows()` is at
    volume_by_price,     \* dict bin price -> volume, in insertion order
    value_area_prices,   \* list of the bin prices in the value area
    accumulated_volume,  \* volume of the value area so far
    left_idx,            \* next lower-price bin (index in all_prices_sorted)
    right_idx,           \* next higher-price bin
    vp_result,           \* what calculate_volume_profile returned
    current_price,       \* current market price of the FVG request
    gaps,                \* what detect_fvgs returned
    nearest_gaps,        \* what find_nearest_gaps returned
    orb_result,          \* what financial_orb_analysis returned
    fetched,             \* what the providers returned, per timeframe processed
    timeframe_zones_data,\* dict timeframe -> entry of financial_technical_zones
    overall_status,      \* the running overall status of financial_technical_zones
    response_data,       \* what financial_technical_zones returned
    columns,             \* the columns of the frame df
    ta_result,           \* what the last indicator call returned
    current_time         \* datetime.now() at the last call of detect_fvgs

vars == <<df, pc, bar_idx, volume_by_price, value_area_prices, accumulated_volume,
          left_idx, right_idx, vp_result, current_price, gaps, nearest_gaps,
          orb_result, fetched, timeframe_zones_data, overall_status, response_data,
          columns, ta_result, current_time>>

vpVars == <<volume_by_price, value_area_prices, accumulated_volume,
            left_idx, right_idx, vp_result>>
fvgVars == <<current_price, gaps, nearest_gaps>>
tzVars == <<fetched, timeframe_zones_data, overall_status, response_data>>
taVars == <<columns, ta_result>>

(***************************************************************************)
(* Helpers                                                                 *)
(***************************************************************************)
SetMin(S) == CHOOSE x \in S : \A y \in S : x <= y
SetMax(S) == CHOOSE x \in S : \A y \in S : x >= y
Abs(x) == IF x < 0 THEN -x ELSE x

RECURSIVE GCD(_, _)
GCD(a, b) == IF b = 0 THEN a ELSE GCD(b, a % b)

RECURSIVE LcmUpTo(_)
LcmUpTo(n) == IF n <= 1 THEN 1 ELSE (LcmUpTo(n - 1) * n) \div GCD(LcmUpTo(n - 1), n)

Min2(a, b) == IF a <= b THEN a ELSE b
Max2(a, b) == IF a >= b THEN a ELSE b

RECURSIVE SumTo(_, _)
SumTo(s, n) == IF n = 0 THEN 0 ELSE s[n] + SumTo(s, n - 1)
SeqSum(s) == SumTo(s, Len(s))

\* round(n / d) to a whole number, a tie going to the even neighbour
\* (n >= 0, d > 0).
RoundHalfEven(n, d) ==
    LET q == n \div d
        r == n % d
    IN  IF 2 * r < d THEN q
        ELSE IF 2 * r > d THEN q + 1
        ELSE IF q % 2 = 0 THEN q ELSE q + 1

None == [is_none |-> TRUE]
NaN == "nan"

\* The state of an operation that has not been called.
NoZonesCall ==
    /\ fetched = <<>>
    /\ timeframe_zones_data = <<>>
    /\ overall_status = "success"
    /\ response_data = None
NoIndicatorCall ==
    /\ columns = {}
    /\ ta_result = None

(***************************************************************************)
(* Volume Profile: calculate_volume_profile(df, num_bins, price_precision) *)
(***************************************************************************)
NumBins == 4        \* num_bins
MaxVPBars == 2      \* longest series given to calculate_volume_profile
VPPrices == {0, 1, 2, 4}   \* prices of that series, in ticks
VPVolumes == {0, 1, 2}     \* volumes of its bars

\* A volume is kept in units of 1/VolScale, so that bar_volume divided by
\* any number of spanned bins (at most num_bins + 1) is a whole number.
VolScale == LcmUpTo(NumBins + 1)

VPBar(l, h, v) == [high |-> h, low |-> l, close |-> h, volume |-> v]
VPBars == {VPBar(l, h, v) : l \in VPPrices, h \in VPPrices, v \in VPVolumes}
VPBarSet == {b \in VPBars : b.low <= b.high}

RECURSIVE SeqsUpTo(_, _)
SeqsUpTo(S, n) ==
    IF n = 0 THEN {<<>>}
    ELSE LET shorter == SeqsUpTo(S, n - 1)
         IN  shorter \cup {Append(s, x) : s \in {t \in shorter : Len(t) = n - 1}, x \in S}

price_min(d) == SetMin({d[i].low : i \in DOMAIN d})
price_max(d) == SetMax({d[i].high : i \in DOMAIN d})

\* bins = np.linspace(price_min, price_max, num_bins + 1): bins[k], kept in
\* units of 1/NumBins tick.
bins(d, k) == NumBins * price_min(d) + k * (price_max(d) - price_min(d))

\* np.searchsorted(bins, x, side='left') and side='right', x in ticks
low_bin_idx(d, x) == Cardinality({k \in 0..NumBins : bins(d, k) < NumBins * x})
high_bin_idx(d, x) == Cardinality({k \in 0..NumBins : bins(d, k) <= NumBins * x})

\* round((bins[bin_idx] + bins[bin_idx + 1]) / 2, price_precision)
bin_price(d, bin_idx) == RoundHalfEven(bins(d, bin_idx) + bins(d, bin_idx + 1), 2 * NumBins)

\* Lines 48-57: the bins a bar adds volume to, range(low_bin_idx,
\* high_bin_idx) cut down to the indices of real bins, 0 <= bin_idx <
\* len(bins) - 1.
SpannedBins(d, row) ==
    {k \in low_bin_idx(d, row.low)..(high_bin_idx(d, row.high) - 1) : 0 <= k /\ k < NumBins}

\* volume_per_bin = bar_volume / (high_bin_idx - low_bin_idx)
volume_per_bin(d, row) ==
    (row.volume * VolScale) \div (high_bin_idx(d, row.high) - low_bin_idx(d, row.low))

\* What the bar adds under the key p (nothing unless high_bin_idx >
\* low_bin_idx): its volume_per_bin, once for every spanned bin whose rounded
\* midpoint is p.
BarShare(d, row, p) ==
    IF high_bin_idx(d, row.high) > low_bin_idx(d, row.low)
    THEN Cardinality({k \in SpannedBins(d, row) : bin_price(d, k) = p}) * volume_per_bin(d, row)
    ELSE 0

\* A set of prices as a list, lowest first.
Ascending(S) ==
    [r \in 1..Cardinality(S) |-> CHOOSE q \in S : Cardinality({o \in S : o < q}) = r - 1]

\* Lines 44-59, the body of `for idx, row in df.iterrows()`: the keys
\* already in volume_by_price keep their place and gain the bar's share, the
\* new keys are inserted after them, bin after bin, lowest price first.
DistributeBar(vbp, d, row) ==
    LET old == {vbp[i].price : i \in DOMAIN vbp}
        new == Ascending({bin_price(d, k) : k \in SpannedBins(d, row)} \ old)
    IN  [i \in DOMAIN vbp |-> [vbp[i] EXCEPT !.volume = @ + BarShare(d, row, vbp[i].price)]]
        \o [r \in DOMAIN new |-> [price |-> new[r], volume |-> BarShare(d, row, new[r])]]

HasPrice(vbp, p) == \E i \in DOMAIN vbp : vbp[i].price = p
GetVolume(vbp, p) ==
    IF HasPrice(vbp, p) THEN (CHOOSE e \in {vbp[i] : i \in DOMAIN vbp} : e.price = p).volume
    ELSE 0

\* A sort that lets the later of two entries of equal volume come first.
ComesBefore_LastFirst(vbp, i, j) ==
    \/ vbp[i].volume > vbp[j].volume
    \/ vbp[i].volume = vbp[j].volume /\ i > j

\* sorted(volume_by_price.items(), key=lambda x: x[1], reverse=True): a
\* stable sort, entries of equal volume keep their insertion order.
ComesBefore(vbp, i, j) ==
    \/ vbp[i].volume > vbp[j].volume
    \/ vbp[i].volume = vbp[j].volume /\ i < j

sorted_prices(vbp) ==
    [r \in DOMAIN vbp |->
        vbp[CHOOSE j \in DOMAIN vbp :
                Cardinality({i \in DOMAIN vbp : ComesBefore(vbp, i, j)}) = r - 1]]

\* sorted(volume_by_price.keys())
all_prices_sorted(vbp) == Ascending({vbp[i].price : i \in DOMAIN vbp})

IndexOf(s, x) == CHOOSE i \in DOMAIN s : s[i] = x

\* The last entry of sorted_prices taken for the first.
poc_LeastVolume(vbp) == sorted_prices(vbp)[Len(vbp)].price

\* poc = sorted_prices[0][0]
poc(vbp) == sorted_prices(vbp)[1].price
\* sum(v for _, v in sorted_prices)
total_volume(vbp) ==
    LET sp == sorted_prices(vbp) IN SeqSum([i \in DOMAIN sp |-> sp[i].volume])

\* Lines 107-153: the volume nodes.  bin_width is (price_max - price_min) /
\* num_bins; distances are compared in units of 1 / (2 * num_bins) of a tick.
RoundSigned(n, d) == IF n >= 0 THEN RoundHalfEven(n, d) ELSE -RoundHalfEven(-n, d)
price_range(d) == price_max(d) - price_min(d)
\* Lines 111 and 134: the volume a bin needs to qualify.  int(len * 0.2) and
\* int(len * 0.8) are taken as their whole parts len \div 5 and 4 * len \div 5.
hvn_threshold(sp) ==
    IF Len(sp) > 5 THEN sp[(Len(sp) \div 5) + 1].volume ELSE sp[Len(sp)].volume
lvn_threshold(sp) ==
    IF Len(sp) > 5 THEN sp[((4 * Len(sp)) \div 5) + 1].volume ELSE sp[1].volume
Reversed(s) == [i \in DOMAIN s |-> s[Len(s) + 1 - i]]
hvn_entries(sp) ==
    LET qualifies(e) == e.volume >= hvn_threshold(sp) IN SelectSeq(sp, qualifies)
lvn_entries(sp) ==
    LET qualifies(e) == e.volume <= lvn_threshold(sp) IN SelectSeq(Reversed(sp), qualifies)
\* Lines 119 and 142: abs(price - node['start']) <= bin_width * 1.5
near_node(price, node, d) == 2 * NumBins * Abs(price - node.start) <= 3 * price_range(d)
\* Lines 126-130 and 149-153
new_node(e, d) ==
    [start |-> RoundSigned(2 * NumBins * e.price - price_range(d), 2 * NumBins),
     end |-> RoundSigned(2 * NumBins * e.price + price_range(d), 2 * NumBins),
     volume |-> e.volume]
\* Lines 120-122 and 143-145: highs tells the high volume nodes, which keep
\* the largest volume, from the low volume nodes, which keep the smallest.
merged_node(node, e, highs) ==
    [start |-> Min2(node.start, e.price),
     end |-> Max2(node.end, e.price),
     volume |-> IF highs THEN Max2(node.volume, e.volume) ELSE Min2(node.volume, e.volume)]
\* Lines 114-130: the entry joins the first node it is near, or starts one.
add_to_nodes(nodes, e, d, highs) ==
    LET near == {n \in DOMAIN nodes : near_node(e.price, nodes[n], d)}
    IN  IF near = {} THEN Append(nodes, new_node(e, d))
        ELSE [nodes EXCEPT ![SetMin(near)] = merged_node(@, e, highs)]
RECURSIVE group_nodes(_, _, _, _)
group_nodes(entries, k, d, highs) ==
    IF k = 0 THEN <<>>
    ELSE add_to_nodes(group_nodes(entries, k - 1, d, highs), entries[k], d, highs)
\* hvns[:5] and lvns[:5]
first_five(nodes) == SubSeq(nodes, 1, Min2(5, Len(nodes)))
high_volume_nodes(vbp, d) ==
    LET entries == hvn_entries(sorted_prices(vbp))
    IN  first_five(group_nodes(entries, Len(entries), d, TRUE))
low_volume_nodes(vbp, d) ==
    LET entries == lvn_entries(sorted_prices(vbp))
    IN  first_five(group_nodes(entries, Len(entries), d, FALSE))

\* An expansion that stops at half of the volume.
BelowValueArea_Half(acc, vbp) == 10 * acc < 5 * total_volume(vbp)

\* accumulated_volume < value_area_volume, value_area_volume = total_volume * 0.7
BelowValueArea(acc, vbp) == 10 * acc < 7 * total_volume(vbp)

\* round(accumulated_volume / total_volume * 100, 2), in hundredths of a
\* percent; 0/0 is nan.
value_area_percentage(acc, total) ==
    IF total = 0 THEN NaN ELSE RoundHalfEven(acc * 10000, total)

VPInit ==
    /\ df \in SeqsUpTo(VPBarSet, MaxVPBars)
    /\ pc = "input"
    /\ bar_idx = 0
    /\ volume_by_price = <<>>
    /\ value_area_prices = <<>>
    /\ accumulated_volume = 0
    /\ left_idx = 0
    /\ right_idx = 0
    /\ vp_result = None
    /\ current_price = 0
    /\ gaps = <<>>
    /\ nearest_gaps = <<>>
    /\ orb_result = None
    /\ NoZonesCall
    /\ NoIndicatorCall
    /\ current_time = 0

\* Lines 19-33: an empty series or a zero-width price range returns None.
VPReject ==
    /\ pc = "input"
    /\ \/ df = <<>>
       \/ df # <<>> /\ price_min(df) >= price_max(df)
    /\ pc' = "done"
    /\ vp_result' = None
    /\ UNCHANGED <<df, bar_idx, volume_by_price, value_area_prices, accumulated_volume,
                   left_idx, right_idx, fvgVars, orb_result, tzVars, taVars, current_time>>

\* Lines 35-40: the bins are laid out and the loop over the bars starts.
VPBins ==
    /\ pc = "input"
    /\ df # <<>>
    /\ price_min(df) < price_max(df)
    /\ volume_by_price' = <<>>
    /\ bar_idx' = 1
    /\ pc' = "rows"
    /\ UNCHANGED <<df, value_area_prices, accumulated_volume, left_idx, right_idx,
                   vp_result, fvgVars, orb_result, tzVars, taVars, current_time>>

\* Lines 42-59: one bar's volume is spread over the bins it spans.
VPRow ==
    /\ pc = "rows"
    /\ bar_idx <= Len(df)
    /\ volume_by_price' = DistributeBar(volume_by_price, df, df[bar_idx])
    /\ bar_idx' = bar_idx + 1
    /\ UNCHANGED <<df, pc, value_area_prices, accumulated_volume, left_idx, right_idx,
                   vp_result, fvgVars, orb_result, tzVars, taVars, current_time>>

\* Lines 61-87: with no volume at all None is returned; otherwise the Point
\* of Control is found and the expansion starts from it.  left_idx and
\* right_idx are Python's indices (from 0) into all_prices_sorted.
VPStart ==
    /\ pc = "rows"
    /\ bar_idx > Len(df)
    /\ IF volume_by_price = <<>>
       THEN /\ pc' = "done"
            /\ vp_result' = None
            /\ UNCHANGED <<value_area_prices, accumulated_volume, left_idx, right_idx>>
       ELSE LET poc_price_idx ==
                    IndexOf(all_prices_sorted(volume_by_price), poc(volume_by_price)) - 1
            IN  /\ value_area_prices' = <<poc(volume_by_price)>>
                /\ accumulated_volume' = GetVolume(volume_by_price, poc(volume_by_price))
                /\ left_idx' = poc_price_idx - 1
                /\ right_idx' = poc_price_idx + 1
                /\ pc' = "expand"
                /\ vp_result' = vp_result
    /\ UNCHANGED <<df, bar_idx, volume_by_price, fvgVars, orb_result, tzVars, taVars, current_time>>

\* An expansion in which a tie goes to the higher-price side.
VAStep_HigherFirst ==
    /\ pc = "expand"
    /\ BelowValueArea(accumulated_volume, volume_by_price)
    /\ LET aps == all_prices_sorted(volume_by_price)
           left_volume == IF left_idx >= 0
                          THEN GetVolume(volume_by_price, aps[left_idx + 1]) ELSE 0
           right_volume == IF right_idx < Len(aps)
                           THEN GetVolume(volume_by_price, aps[right_idx + 1]) ELSE 0
       IN  IF left_volume > right_volume /\ left_idx >= 0
           THEN /\ value_area_prices' = Append(value_area_prices, aps[left_idx + 1])
                /\ accumulated_volume' = accumulated_volume + left_volume
                /\ left_idx' = left_idx - 1
                /\ right_idx' = right_idx
                /\ pc' = "expand"
           ELSE IF right_idx < Len(aps)
           THEN /\ value_area_prices' = Append(value_area_prices, aps[right_idx + 1])
                /\ accumulated_volume' = accumulated_volume + right_volume
                /\ right_idx' = right_idx + 1
                /\ left_idx' = left_idx
                /\ pc' = "expand"
           ELSE /\ pc' = "break"
                /\ UNCHANGED <<value_area_prices, accumulated_volume, left_idx, right_idx>>
    /\ UNCHANGED <<df, bar_idx, volume_by_price, vp_result, fvgVars, orb_result, tzVars, taVars, current_time>>

\* Lines 89-102: one pass of `while accumulated_volume < value_area_volume`.
VAStep ==
    /\ pc = "expand"
    /\ BelowValueArea(accumulated_volume, volume_by_price)
    /\ LET aps == all_prices_sorted(volume_by_price)
           left_volume == IF left_idx >= 0
                          THEN GetVolume(volume_by_price, aps[left_idx + 1]) ELSE 0
           right_volume == IF right_idx < Len(aps)
                           THEN GetVolume(volume_by_price, aps[right_idx + 1]) ELSE 0
       IN  IF left_volume >= right_volume /\ left_idx >= 0
           THEN /\ value_area_prices' = Append(value_area_prices, aps[left_idx + 1])
                /\ accumulated_volume' = accumulated_volume + left_volume
                /\ left_idx' = left_idx - 1
                /\ right_idx' = right_idx
                /\ pc' = "expand"
           ELSE IF right_idx < Len(aps)
           THEN /\ value_area_prices' = Append(value_area_prices, aps[right_idx + 1])
                /\ accumulated_volume' = accumulated_volume + right_volume
                /\ right_idx' = right_idx + 1
                /\ left_idx' = left_idx
                /\ pc' = "expand"
           ELSE /\ pc' = "break"
                /\ UNCHANGED <<value_area_prices, accumulated_volume, left_idx, right_idx>>
    /\ UNCHANGED <<df, bar_idx, volume_by_price, vp_result, fvgVars, orb_result, tzVars, taVars, current_time>>

\* Lines 104-105 and 155-164: the loop is over and the profile is returned.
\* total_volume and value_area_volume are in units of 1/VolScale.
VPReturn ==
    /\ \/ pc = "break"
       \/ pc = "expand" /\ ~BelowValueArea(accumulated_volume, volume_by_price)
    /\ vp_result' =
         [is_none |-> FALSE,
          point_of_control |-> poc(volume_by_price),
          value_area_high |-> SetMax({value_area_prices[i] : i \in DOMAIN value_area_prices}),
          value_area_low |-> SetMin({value_area_prices[i] : i \in DOMAIN value_area_prices}),
          high_volume_nodes |-> high_volume_nodes(volume_by_price, df),
          low_volume_nodes |-> low_volume_nodes(volume_by_price, df),
          total_volume |-> total_volume(volume_by_price),
          value_area_volume |-> accumulated_volume,
          value_area_percentage |->
              value_area_percentage(accumulated_volume, total_volume(volume_by_price))]
    /\ pc' = "done"
    /\ UNCHANGED <<df, bar_idx, volume_by_price, value_area_prices, accumulated_volume,
                   left_idx, right_idx, fvgVars, orb_result, tzVars, taVars, current_time>>

VPNext == VPReject \/ VPBins \/ VPRow \/ VPStart \/ VAStep \/ VPReturn

SpecVP == VPInit /\ [][VPNext]_vars

\* The call runs on, pass after pass, until the expansion loop is over.
SpecVPLive == SpecVP /\ WF_vars(VPReject \/ VPBins \/ VPRow \/ VPStart \/ VAStep)

(***************************************************************************)
(* Properties of the Volume Profile                                        *)
(***************************************************************************)
VPReturned == pc = "done" /\ ~vp_result.is_none
InputVolume == SeqSum([i \in DOMAIN df |-> df[i].volume]) * VolScale
OccupiedBins == {volume_by_price[i].price : i \in DOMAIN volume_by_price}
ValueArea == {value_area_prices[i] : i \in DOMAIN value_area_prices}
MaxBinVolume == SetMax({volume_by_price[i].volume : i \in DOMAIN volume_by_price})
AllBarsAlike == df # <<>> /\ \A i \in DOMAIN df : df[i] = df[1]

\* C1: the volumes aggregated into the bins (total_volume) add up to the sum
\* of the input bars' volumes: volume is redistributed, never created or lost.
C1_VolumeConserved == VPReturned => vp_result.total_volume = InputVolume

C3_ValueAreaAroundPoc ==
    VPReturned =>
        LET aps == all_prices_sorted(volume_by_price)
            idx == {i \in DOMAIN aps : aps[i] \in ValueArea}
        IN  /\ ValueArea \subseteq OccupiedBins
            /\ Cardinality(ValueArea) = Len(value_area_prices)
            /\ idx = SetMin(idx)..SetMax(idx)
            /\ vp_result.point_of_control \in ValueArea
            /\ vp_result.value_area_low = aps[SetMin(idx)]
            /\ vp_result.value_area_high = aps[SetMax(idx)]
            /\ vp_result.value_area_low <= vp_result.point_of_control
            /\ vp_result.point_of_control <= vp_result.value_area_high
            /\ GetVolume(volume_by_price, vp_result.point_of_control) = MaxBinVolume

C3_Witness ==
    /\ VPReturned
    /\ vp_result.value_area_low < vp_result.point_of_control
    /\ vp_result.point_of_control < vp_result.value_area_high
    /\ ValueArea # OccupiedBins

Lookback == 5          \* lookback_periods
MaxFvgBars == 6        \* longest series given to detect_fvgs
MaxGaps == 2           \* max_gaps
MinGapPerMille == 1    \* min_gap_percentage = 0.1 percent, in tenths of a percent

\* The bars of the series, (low, high) in ticks: at a price of 1000 ticks a
\* gap of one tick is below min_gap_percentage, a gap of two ticks is not.
FvgBars == {<<1000, 1000>>, <<1002, 1002>>, <<1001, 1003>>, <<1005, 1005>>}
\* The prices current_price is taken from.
FvgCurrentPrices == {999, 1001, 1004}
\* The bars (h=100, l=98), (h=101, l=99), (h=104, l=102), (h=103, l=100.5).
ScenarioBars == << <<9800, 10000>>, <<9900, 10100>>, <<10200, 10400>>, <<10050, 10300>> >>

Candle(t, b) == [datetime |-> t, low |-> b[1], high |-> b[2]]
Shape(d) == [i \in DOMAIN d |-> <<d[i].low, d[i].high>>]

\* A set of numbers as a list, highest first.
Descending(S) ==
    [r \in 1..Cardinality(S) |-> CHOOSE q \in S : Cardinality({o \in S : o > q}) = r - 1]

\* A scan that is not limited to the most recent bars.
df_analysis_Whole(d, lookback_periods) == d

\* df.tail(min(lookback_periods, len(df)))
df_analysis(d, lookback_periods) ==
    SubSeq(d, Len(d) - Min2(lookback_periods, Len(d)) + 1, Len(d))

\* Lines 75-92.  candle3 = da[i], candle1 = da[i - 2] (i counts from 1).
IsBullish(da, i) == da[i - 2].high < da[i].low
IsBearish(da, i) == ~IsBullish(da, i) /\ da[i - 2].low > da[i].high
gap_low(da, i) == IF IsBullish(da, i) THEN da[i - 2].high ELSE da[i].high
gap_high(da, i) == IF IsBullish(da, i) THEN da[i].low ELSE da[i - 2].low

\* A filter that lets every gap through.
TooSmall_Never(gl, gh) == FALSE

\* Lines 95-101: gap_percentage < self.min_gap_percentage, with
\* gap_percentage = (gap_high - gap_low) / ((gap_high + gap_low) / 2) * 100.
TooSmall(gl, gh) == (gh - gl) * 2000 < MinGapPerMille * (gh + gl)

\* The history cut down to the newest bar.
price_history_Newest(da, i) == {k \in (i + 1)..Len(da) : k = Len(da)}

\* df_analysis.iloc[i+1:], the bars after candle3 (their positions in da)
price_history(da, i) == (i + 1)..Len(da)

\* A candle tests the gap only by reaching inside it.
Tested_Strictly(candle, gl, gh) == candle.low < gh /\ candle.high > gl

\* Line 193: the candle tested the gap
Tested(candle, gl, gh) == candle.low <= gh /\ candle.high >= gl

\* A test extreme that is not cut to the gap's boundary.
test_high_Unclipped(candle, gh) == candle.high

\* Lines 197-198
test_low(candle, gl) == Max2(candle.low, gl)
test_high(candle, gh) == Min2(candle.high, gh)

\* A percentage kept as the exact fraction num / den, den > 0.
Frac(n, d) == [num |-> n, den |-> d]
FracLeq(x, y) == x.num * y.den <= y.num * x.den
FracMin(x, y) == IF x.num * y.den <= y.num * x.den THEN x ELSE y

\* Lines 168-212.  With an empty price_history the gap keeps its defaults.
\* gap_midpoint is in half ticks.
analyze_gap_interaction(fvg, da, i, cp) ==
    LET gl == fvg.gap_low
        gh == fvg.gap_high
        tests == {k \in price_history(da, i) : Tested(da[k], gl, gh)}
        lowest == SetMin({test_low(da[k], gl) : k \in tests})
        highest == SetMax({test_high(da[k], gh) : k \in tests})
    IN  IF price_history(da, i) = {} THEN fvg
        ELSE [fvg EXCEPT
                !.currently_inside_gap = gl <= cp /\ cp <= gh,
                !.times_tested = Cardinality(tests),
                !.lowest_test = IF tests # {} THEN lowest ELSE None,
                !.highest_test = IF tests # {} THEN highest ELSE None,
                !.filled_percentage =
                    IF tests # {}
                    THEN FracMin(Frac((highest - lowest) * 100, gh - gl), Frac(100, 1))
                    ELSE @]

\* Lines 146-162: the FairValueGap of the candles da[i-2], da[i-1], da[i].
\* now is what datetime.now() gave at line 70, in minutes like the bars'
\* datetime.  (The fields copied from the candles, candle_data and
\* volume_data, take no part in what follows.)
FairValueGap(da, i, cp, now) ==
    LET gl == gap_low(da, i)
        gh == gap_high(da, i)
        fvg == [gap_id |-> da[i].datetime,
                gap_type |-> IF IsBullish(da, i) THEN "bullish" ELSE "bearish",
                timestamp |-> da[i].datetime,
                age_minutes |-> now - da[i].datetime,
                gap_high |-> gh,
                gap_low |-> gl,
                gap_size |-> gh - gl,
                gap_midpoint |-> gh + gl,
                times_tested |-> 0,
                lowest_test |-> None,
                highest_test |-> None,
                filled_percentage |-> Frac(0, 1),
                currently_inside_gap |-> FALSE]
    IN  analyze_gap_interaction(fvg, da, i, cp)

\* Lines 58-166: the gaps of the series, newest first.
detect_fvgs(d, cp, lookback_periods, now) ==
    IF Len(d) < 3 THEN <<>>
    ELSE LET da == df_analysis(d, lookback_periods)
             found == {i \in 3..Len(da) :
                          /\ IsBullish(da, i) \/ IsBearish(da, i)
                          /\ ~TooSmall(gap_low(da, i), gap_high(da, i))}
             order == Descending(found)
         IN  [r \in DOMAIN order |-> FairValueGap(da, order[r], cp, now)]

\* A gap is above the price as soon as its midpoint is.
IsAbove_Midpoint(gap, cp) == gap.gap_midpoint > 2 * cp

\* Lines 283-286
IsAbove(gap, cp) == gap.gap_low > cp
IsBelow(gap, cp) == ~IsAbove(gap, cp) /\ gap.gap_high < cp

\* distance = abs(gap.gap_midpoint - current_price), in half ticks
distance(gap, cp) == Abs(gap.gap_midpoint - 2 * cp)

\* Lines 274-281: level and distance are rounded to a whole tick,
\* filled_percentage to a tenth of a percent.
gap_info(gap, cp) ==
    [level |-> RoundHalfEven(gap.gap_midpoint, 2),
     gap_id |-> gap.gap_id,
     distance |-> RoundHalfEven(distance(gap, cp), 2),
     gap_type |-> gap.gap_type,
     filled_percentage |->
         RoundHalfEven(gap.filled_percentage.num * 10, gap.filled_percentage.den)]

\* list.sort(key=lambda x: x['distance']) followed by [:max_gaps], on the
\* entries infos[i], i in part: a stable sort, entries of equal (rounded)
\* distance keep the order they were appended in.
NearerFirst(infos, i, j) ==
    \/ infos[i].distance < infos[j].distance
    \/ infos[i].distance = infos[j].distance /\ i < j

SortAndLimit(infos, part, max_gaps) ==
    [r \in 1..Min2(Cardinality(part), max_gaps) |->
        infos[CHOOSE j \in part :
                  Cardinality({i \in part : NearerFirst(infos, i, j)}) = r - 1]]

\* Lines 254-295
find_nearest_gaps(gs, cp, max_gaps) ==
    LET infos == [i \in DOMAIN gs |-> gap_info(gs[i], cp)]
    IN  [above_current_price |->
             SortAndLimit(infos, {i \in DOMAIN gs : IsAbove(gs[i], cp)}, max_gaps),
         below_current_price |->
             SortAndLimit(infos, {i \in DOMAIN gs : IsBelow(gs[i], cp)}, max_gaps)]

NoNearestGaps == [above_current_price |-> <<>>, below_current_price |-> <<>>]

FVGInit ==
    /\ df = <<>>
    /\ current_price \in FvgCurrentPrices
    /\ gaps = <<>>
    /\ nearest_gaps = NoNearestGaps
    /\ pc = "fvg"
    /\ bar_idx = 0
    /\ volume_by_price = <<>>
    /\ value_area_prices = <<>>
    /\ accumulated_volume = 0
    /\ left_idx = 0
    /\ right_idx = 0
    /\ vp_result = None
    /\ orb_result = None
    /\ NoZonesCall
    /\ NoIndicatorCall
    /\ current_time = 0

\* The calculator's run on the series d at the price cp and the time now.
FVGAnalysisAt(d, cp, now) ==
    /\ df' = d
    /\ current_price' = cp
    /\ current_time' = now
    /\ gaps' = detect_fvgs(d, cp, Lookback, now)
    /\ nearest_gaps' = find_nearest_gaps(gaps', cp, MaxGaps)
    /\ UNCHANGED <<pc, bar_idx, vpVars, orb_result, tzVars, taVars>>
\* The run made as the last bar of d closes.
FVGAnalysis(d, cp) == FVGAnalysisAt(d, cp, d[Len(d)].datetime)

\* A bar is added to the series and the series is analysed.
FVGBar ==
    /\ Len(df) < MaxFvgBars
    /\ Shape(df) \in Seq(FvgBars)
    /\ \E b \in FvgBars, cp \in FvgCurrentPrices :
           FVGAnalysis(Append(df, Candle(Len(df) + 1, b)), cp)

\* The same for the series of the documented scenario.
FVGScenarioBar ==
    /\ Len(df) < Len(ScenarioBars)
    /\ Shape(df) = SubSeq(ScenarioBars, 1, Len(df))
    /\ \E cp \in FvgCurrentPrices :
           FVGAnalysis(Append(df, Candle(Len(df) + 1, ScenarioBars[Len(df) + 1])), cp)

FVGNext == FVGBar \/ FVGScenarioBar

SpecFVG == FVGInit /\ [][FVGNext]_vars

\* The same request made at different moments.
ClockBars == 3
MaxAge == 2
FVGFirstCall ==
    /\ df = <<>>
    /\ \E shape \in [1..ClockBars -> FvgBars], cp \in FvgCurrentPrices,
          now \in ClockBars..(ClockBars + MaxAge) :
           FVGAnalysisAt([t \in 1..ClockBars |-> Candle(t, shape[t])], cp, now)
FVGSameCall ==
    /\ df # <<>>
    /\ \E now \in (current_time + 1)..(Len(df) + MaxAge) :
           FVGAnalysisAt(df, current_price, now)

FVGClockNext == FVGFirstCall \/ FVGSameCall

SpecFVGClock == FVGInit /\ [][FVGClockNext]_vars

(***************************************************************************)
(* Properties of the Fair Value Gaps                                       *)
(***************************************************************************)
GapOf(id) == CHOOSE g \in {gaps[i] : i \in DOMAIN gaps} : g.gap_id = id
PlaceOf(id) == CHOOSE i \in DOMAIN gaps : gaps[i].gap_id = id
GapsAbove == {i \in DOMAIN gaps : gaps[i].gap_low > current_price}
GapsBelow == {i \in DOMAIN gaps : gaps[i].gap_high < current_price}
Straddlers == {i \in DOMAIN gaps : gaps[i].gap_low <= current_price
                                    /\ current_price <= gaps[i].gap_high}
Listed(list) == {PlaceOf(list[k].gap_id) : k \in DOMAIN list}

\* C4: every gap detect_fvgs returns has gap_size = gap_high - gap_low > 0,
\* gap_midpoint = (gap_high + gap_low) / 2 and
\* gap_size / gap_midpoint * 100 >= min_gap_percentage.
C4_GapsAboveMinimum ==
    \A i \in DOMAIN gaps :
        /\ gaps[i].gap_size = gaps[i].gap_high - gaps[i].gap_low
        /\ gaps[i].gap_size > 0
        /\ gaps[i].gap_midpoint = gaps[i].gap_high + gaps[i].gap_low
        /\ gaps[i].gap_size * 2000 >= MinGapPerMille * gaps[i].gap_midpoint

C4_Witness ==
    /\ \E i \in DOMAIN gaps : gaps[i].gap_size = 2
    /\ LET da == df_analysis(df, Lookback)
       IN  \E i \in 3..Len(da) :
               /\ IsBullish(da, i) \/ IsBearish(da, i)
               /\ gap_high(da, i) - gap_low(da, i) = 1

\* C5: when bars are appended to the series and a gap is still detected
\* (it is still inside the lookback window), its times_tested and its
\* filled_percentage on the longer series are at least what they were on the
\* shorter one.
C5_FillMonotone ==
    [][(Len(df') = Len(df) + 1 /\ SubSeq(df', 1, Len(df)) = df) =>
          \A i \in DOMAIN gaps : \A j \in DOMAIN gaps' :
              gaps[i].timestamp = gaps'[j].timestamp =>
                  /\ gaps'[j].gap_low = gaps[i].gap_low
                  /\ gaps'[j].gap_high = gaps[i].gap_high
                  /\ gaps'[j].times_tested >= gaps[i].times_tested
                  /\ FracLeq(gaps[i].filled_percentage, gaps'[j].filled_percentage)]_vars

C5_Witness ==
    /\ Len(df) > Lookback
    /\ \E i \in DOMAIN gaps :
           /\ gaps[i].times_tested >= 2
           /\ gaps[i].filled_percentage.num > 0
           /\ gaps[i].filled_percentage.num < 100 * gaps[i].filled_percentage.den

\* C8 as claimed: a gap is in the above list only if gap_low > current_price
\* and in the below list only if gap_high < current_price, each list is in
\* ascending order of the distance of the gap's midpoint to current_price,
\* and it holds the max_gaps nearest gaps of its partition.
NearestByMidpoint(list, part) ==
    /\ Listed(list) \subseteq part
    /\ Len(list) = Min2(Cardinality(part), MaxGaps)
    /\ \A k, l \in DOMAIN list :
           k < l => distance(GapOf(list[k].gap_id), current_price)
                        <= distance(GapOf(list[l].gap_id), current_price)
    /\ \A i \in part \ Listed(list) : \A k \in DOMAIN list :
           distance(GapOf(list[k].gap_id), current_price) <= distance(gaps[i], current_price)

C8_Original ==
    /\ NearestByMidpoint(nearest_gaps.above_current_price, GapsAbove)
    /\ NearestByMidpoint(nearest_gaps.below_current_price, GapsBelow)

\* What find_nearest_gaps does keep: the partition (a gap that straddles
\* current_price is in neither list); each list is in ascending order of the
\* distance it reports, which is the midpoint distance rounded to 2
\* decimals, gaps of equal rounded distance staying in the order detect_fvgs
\* returned them (newest first); and it holds the first max_gaps gaps of its
\* partition in that order.
Precedes(i, j) ==
    LET di == RoundHalfEven(distance(gaps[i], current_price), 2)
        dj == RoundHalfEven(distance(gaps[j], current_price), 2)
    IN  di < dj \/ (di = dj /\ i < j)

NearestByReportedDistance(list, part) ==
    /\ Listed(list) \subseteq part
    /\ Listed(list) \cap Straddlers = {}
    /\ Len(list) = Min2(Cardinality(part), MaxGaps)
    /\ \A k \in DOMAIN list :
           list[k].distance = RoundHalfEven(distance(GapOf(list[k].gap_id), current_price), 2)
    /\ \A k, l \in DOMAIN list :
           k < l => Precedes(PlaceOf(list[k].gap_id), PlaceOf(list[l].gap_id))
    /\ \A i \in part \ Listed(list) : \A k \in DOMAIN list :
           Precedes(PlaceOf(list[k].gap_id), i)

NearestGapsByReportedDistance ==
    /\ NearestByReportedDistance(nearest_gaps.above_current_price, GapsAbove)
    /\ NearestByReportedDistance(nearest_gaps.below_current_price, GapsBelow)

RoundedTieTruncated ==
    /\ Cardinality(GapsAbove) > MaxGaps
    /\ Len(nearest_gaps.above_current_price) = MaxGaps
    /\ \E i, j \in GapsAbove :
           /\ distance(gaps[i], current_price) < distance(gaps[j], current_price)
           /\ RoundHalfEven(distance(gaps[i], current_price), 2)
                  = RoundHalfEven(distance(gaps[j], current_price), 2)

\* C9: on the bars (h=100, l=98), (h=101, l=99), (h=104, l=102) detect_fvgs
\* returns one gap, bullish, with gap_low = 100, gap_high = 102, gap_size = 2
\* and gap_midpoint = 101; with the bar (h=103, l=100.5) appended it still
\* returns that gap alone, with times_tested = 1, lowest_test = 100.5,
\* highest_test = 102 and filled_percentage = 75.0.
ScenarioGap(g) ==
    /\ g.gap_type = "bullish"
    /\ g.gap_low = 10000
    /\ g.gap_high = 10200
    /\ g.gap_size = 200
    /\ g.gap_midpoint = 2 * 10100

C9_Scenario ==
    /\ Shape(df) = SubSeq(ScenarioBars, 1, 3) =>
           /\ Len(gaps) = 1
           /\ ScenarioGap(gaps[1])
           /\ gaps[1].times_tested = 0
    /\ Shape(df) = ScenarioBars =>
           /\ Len(gaps) = 1
           /\ ScenarioGap(gaps[1])
           /\ gaps[1].times_tested = 1
           /\ gaps[1].lowest_test = 10050
           /\ gaps[1].highest_test = 10200
           /\ gaps[1].filled_percentage.num = 75 * gaps[1].filled_percentage.den

C9_Witness ==
    /\ Shape(df) = ScenarioBars
    /\ Len(gaps) = 1
    /\ gaps[1].times_tested = 1

(***************************************************************************)
(* Opening Range Breakout: financial_orb_analysis, analyze_orb_bias and    *)
(* detect_orb_squeeze.  The series is one bar a minute, oldest first; a    *)
(* bar's datetime is its minute after the open of 09:30, below 0 for a     *)
(* pre-market bar.  The analysis runs on the series each time a bar has    *)
(* been added to it.                                                       *)
(***************************************************************************)
MaxOrbBars == 7             \* longest series fetched
MarketCloseMinute == 390    \* market_close = 16:00, in minutes after 09:30
orb_periods == <<1, 2, 5>>  \* orb_periods, in minutes
OrbStarts == {-1, 0}        \* minute of the oldest bar of the series

\* The bars of the series, (low, high, close, volume) in ticks: at a price
\* of 1500 ticks the 0.1% buffer is one tick and a half.
OrbBars == {<<1500, 1500, 1500, 1>>, <<1500, 1501, 1501, 1>>,
            <<1501, 1502, 1502, 3>>, <<1498, 1500, 1498, 1>>}

OrbCandle(t, b) == [datetime |-> t, low |-> b[1], high |-> b[2], close |-> b[3],
                    volume |-> b[4]]

\* Sum of the volumes of the bars d[i], i in S
VolumeOf(d, S) == SeqSum([i \in DOMAIN d |-> IF i \in S THEN d[i].volume ELSE 0])

\* Line 77: df[(df.index >= market_open_time) & (df.index <= market_close_time)],
\* as the positions of its bars in d
df_rth(d) == {i \in DOMAIN d : d[i].datetime >= 0 /\ d[i].datetime <= MarketCloseMinute}

\* Lines 120-128
position(cp, orb_high, orb_low) ==
    IF cp > orb_high THEN "above_range"
    ELSE IF cp < orb_low THEN "below_range"
    ELSE "inside_range"

\* distance_from_range, rounded to 2 decimals: hundredths of a percent
distance_from_range(cp, orb_high, orb_low) ==
    IF cp > orb_high THEN RoundHalfEven((cp - orb_high) * 10000, orb_high)
    ELSE IF cp < orb_low THEN RoundHalfEven((orb_low - cp) * 10000, orb_low)
    ELSE 0

\* A breakout that is held wherever the current price is.
Held_AnyPosition(bars_beyond, pos, side) == bars_beyond >= 3

\* Lines 143 and 150: bars_above >= 3 and position == "above_range"
Held(bars_beyond, pos, side) == bars_beyond >= 3 /\ pos = side

\* Lines 132-152: breakout_type, "None" when no breakout is confirmed.
\* close > orb_high * 1.001 and close < orb_low * 0.999 are compared in
\* thousandths of a tick.
breakout_type(d, post_orb_data, orb_high, orb_low, pos) ==
    LET bars_above == Cardinality({i \in post_orb_data : d[i].close > orb_high})
        bars_below == Cardinality({i \in post_orb_data : d[i].close < orb_low})
    IN  IF post_orb_data = {} THEN "None"
        ELSE IF \E i \in post_orb_data : d[i].close * 1000 > orb_high * 1001
        THEN IF Held(bars_above, pos, "above_range") THEN "bullish" ELSE "None"
        ELSE IF \E i \in post_orb_data : d[i].close * 1000 < orb_low * 999
        THEN IF Held(bars_below, pos, "below_range") THEN "bearish" ELSE "None"
        ELSE "None"

\* Lines 155-164: the targets in the order of the dict, each with its
\* multiple of orb_range in halves; a level is kept in half ticks.
target_names == <<"bull_0.5x", "bull_1x", "bull_1.5x", "bull_2x",
                  "bear_0.5x", "bear_1x", "bear_1.5x", "bear_2x">>
IsBull(name) == name \in {"bull_0.5x", "bull_1x", "bull_1.5x", "bull_2x"}
Halves(name) ==
    CASE name \in {"bull_0.5x", "bear_0.5x"} -> 1
      [] name \in {"bull_1x", "bear_1x"} -> 2
      [] name \in {"bull_1.5x", "bear_1.5x"} -> 3
      [] name \in {"bull_2x", "bear_2x"} -> 4

target_level(name, orb_high, orb_low) ==
    IF IsBull(name) THEN 2 * orb_high + Halves(name) * (orb_high - orb_low)
    ELSE 2 * orb_low - Halves(name) * (orb_high - orb_low)

\* A bull target that is hit only once the price is past it.
bull_hit_Past(cp, level) == 2 * cp > level

\* Lines 169-172
bull_hit(cp, level) == 2 * cp >= level
bear_hit(cp, level) == 2 * cp <= level

is_hit(name, cp, orb_high, orb_low) ==
    IF IsBull(name) THEN bull_hit(cp, target_level(name, orb_high, orb_low))
    ELSE bear_hit(cp, target_level(name, orb_high, orb_low))

\* Lines 167-172: the names of the targets that are hit, in the order of
\* the dict.
targets_hit(cp, orb_high, orb_low) ==
    LET hit == Ascending({k \in DOMAIN target_names :
                             is_hit(target_names[k], cp, orb_high, orb_low)})
    IN  [r \in DOMAIN hit |-> target_names[hit[r]]]

\* Lines 95-195: the analysis of one period.  Prices are reported rounded to
\* a whole tick, volume_ratio_vs_day_avg in hundredths.  The record of an
\* analysed period has no status key: status "None" stands for its absence.
period_analysis(d, cp, period) ==
    LET rth == df_rth(d)
        orb_data == {i \in rth : d[i].datetime <= period}
        post_orb_data == {i \in rth : d[i].datetime > period}
        orb_high == SetMax({d[i].high : i \in orb_data})
        orb_low == SetMin({d[i].low : i \in orb_data})
        orb_volume == VolumeOf(d, orb_data)
        rth_volume == VolumeOf(d, rth)
        pos == position(cp, orb_high, orb_low)
        kind == breakout_type(d, post_orb_data, orb_high, orb_low, pos)
    IN  IF Cardinality(orb_data) < period
        THEN [status |-> "insufficient_data"]
        ELSE [status |-> "None",
              orb_high |-> orb_high,
              orb_low |-> orb_low,
              orb_range |-> orb_high - orb_low,
              orb_midpoint |-> RoundHalfEven(orb_high + orb_low, 2),
              current_price |-> cp,
              position |-> pos,
              distance_from_range_pct |-> distance_from_range(cp, orb_high, orb_low),
              breakout_confirmed |-> kind # "None",
              breakout_type |-> kind,
              volume_analysis |->
                  [orb_total_volume |-> orb_volume,
                   orb_avg_volume_per_min |-> orb_volume \div Cardinality(orb_data),
                   volume_ratio_vs_day_avg |->
                       IF rth_volume > 0
                       THEN RoundHalfEven(100 * orb_volume * Cardinality(rth),
                                          Cardinality(orb_data) * rth_volume)
                       ELSE 0,
                   high_volume |->
                       /\ rth_volume > 0
                       /\ 10 * orb_volume * Cardinality(rth)
                              > 12 * Cardinality(orb_data) * rth_volume],
              targets |-> [k \in DOMAIN target_names |->
                              RoundHalfEven(target_level(target_names[k], orb_high, orb_low), 2)],
              targets_hit |-> targets_hit(cp, orb_high, orb_low)]

\* Lines 230-267: what one period adds to bullish_signals and to
\* bearish_signals.
Bulls(hits) == Cardinality({k \in DOMAIN hits : IsBull(hits[k])})
\* A confirmed breakout that counts once.
bullish_signals_of_Single(data) ==
    IF data.status = "insufficient_data" THEN 0
    ELSE (IF data.breakout_confirmed /\ data.breakout_type = "bullish" THEN 1 ELSE 0)
         + (IF data.position = "above_range" THEN 1 ELSE 0)
         + (IF data.volume_analysis.high_volume /\ data.position = "above_range" THEN 1 ELSE 0)
         + Bulls(data.targets_hit)
bullish_signals_of(data) ==
    IF data.status = "insufficient_data" THEN 0
    ELSE (IF data.breakout_confirmed /\ data.breakout_type = "bullish" THEN 2 ELSE 0)
         + (IF data.position = "above_range" THEN 1 ELSE 0)
         + (IF data.volume_analysis.high_volume /\ data.position = "above_range" THEN 1 ELSE 0)
         + Bulls(data.targets_hit)
bearish_signals_of(data) ==
    IF data.status = "insufficient_data" THEN 0
    ELSE (IF data.breakout_confirmed /\ data.breakout_type = "bearish" THEN 2 ELSE 0)
         + (IF data.position = "below_range" THEN 1 ELSE 0)
         + (IF data.volume_analysis.high_volume /\ data.position = "below_range" THEN 1 ELSE 0)
         + (Len(data.targets_hit) - Bulls(data.targets_hit))

\* A bias that a tie already tips to the bullish side.
analyze_orb_bias_Ties(orb_data) ==
    LET bullish_signals ==
            SeqSum([k \in DOMAIN orb_periods |-> bullish_signals_of(orb_data[orb_periods[k]])])
        bearish_signals ==
            SeqSum([k \in DOMAIN orb_periods |-> bearish_signals_of(orb_data[orb_periods[k]])])
    IN  [bias |-> IF 2 * bullish_signals >= 3 * bearish_signals THEN "bullish"
                  ELSE IF 2 * bearish_signals > 3 * bullish_signals THEN "bearish"
                  ELSE "neutral",
         confidence |-> IF 2 * bullish_signals >= 3 * bearish_signals
                        THEN (IF bullish_signals > 2 * bearish_signals THEN "high" ELSE "medium")
                        ELSE IF 2 * bearish_signals > 3 * bullish_signals
                        THEN (IF bearish_signals > 2 * bullish_signals THEN "high" ELSE "medium")
                        ELSE "low",
         bullish_signals |-> bullish_signals,
         bearish_signals |-> bearish_signals]

\* Lines 222-286.  (strength_factors, the texts that go with the signals,
\* are left out.)
analyze_orb_bias(orb_data) ==
    LET bullish_signals ==
            SeqSum([k \in DOMAIN orb_periods |-> bullish_signals_of(orb_data[orb_periods[k]])])
        bearish_signals ==
            SeqSum([k \in DOMAIN orb_periods |-> bearish_signals_of(orb_data[orb_periods[k]])])
    IN  [bias |-> IF 2 * bullish_signals > 3 * bearish_signals THEN "bullish"
                  ELSE IF 2 * bearish_signals > 3 * bullish_signals THEN "bearish"
                  ELSE "neutral",
         confidence |-> IF 2 * bullish_signals > 3 * bearish_signals
                        THEN (IF bullish_signals > 2 * bearish_signals THEN "high" ELSE "medium")
                        ELSE IF 2 * bearish_signals > 3 * bullish_signals
                        THEN (IF bearish_signals > 2 * bullish_signals THEN "high" ELSE "medium")
                        ELSE "low",
         bullish_signals |-> bullish_signals,
         bearish_signals |-> bearish_signals]

\* A squeeze that ranges of one width already make.
detect_orb_squeeze_Flat(orb_data) ==
    LET valid == {p \in DOMAIN orb_data : orb_data[p].status # "insufficient_data"}
        periods == Ascending(valid)
        ranges == [k \in DOMAIN periods |-> orb_data[periods[k]].orb_range]
        contracting == \A k \in 2..Len(ranges) : ranges[k] <= ranges[k - 1]
        squeezed == /\ contracting
                    /\ ranges[1] > 0
                    /\ 7 * ranges[Len(ranges)] < 10 * ranges[1]
    IN  IF Cardinality(valid) < 2
        THEN [squeeze_detected |-> FALSE,
              message |-> "Insufficient ORB periods for squeeze detection"]
        ELSE [squeeze_detected |-> squeezed,
              contracting_ranges |-> contracting,
              compression_ratio |-> IF ranges[1] > 0
                                    THEN RoundHalfEven(100 * ranges[Len(ranges)], ranges[1])
                                    ELSE 100,
              range_progression |-> [k \in DOMAIN periods |-> <<periods[k], ranges[k]>>],
              interpretation |-> IF squeezed THEN "Potential explosive move ahead"
                                 ELSE "Normal range expansion"]

\* Lines 289-332.  compression_ratio is reported in hundredths.
detect_orb_squeeze(orb_data) ==
    LET valid == {p \in DOMAIN orb_data : orb_data[p].status # "insufficient_data"}
        periods == Ascending(valid)
        ranges == [k \in DOMAIN periods |-> orb_data[periods[k]].orb_range]
        contracting == \A k \in 2..Len(ranges) : ranges[k] <= ranges[k - 1]
        squeezed == /\ contracting
                    /\ ranges[1] > 0
                    /\ 10 * ranges[Len(ranges)] < 7 * ranges[1]
    IN  IF Cardinality(valid) < 2
        THEN [squeeze_detected |-> FALSE,
              message |-> "Insufficient ORB periods for squeeze detection"]
        ELSE [squeeze_detected |-> squeezed,
              contracting_ranges |-> contracting,
              compression_ratio |-> IF ranges[1] > 0
                                    THEN RoundHalfEven(100 * ranges[Len(ranges)], ranges[1])
                                    ELSE 100,
              range_progression |-> [k \in DOMAIN periods |-> <<periods[k], ranges[k]>>],
              interpretation |-> IF squeezed THEN "Potential explosive move ahead"
                                 ELSE "Normal range expansion"]

\* Lines 45-212.  current_price = df.iloc[0]['close'], the close of the
\* first bar of the series.
financial_orb_analysis(d) ==
    IF d = <<>>
    THEN [status |-> "error", message |-> "Failed to fetch price data"]
    ELSE IF df_rth(d) = {}
    THEN [status |-> "error", message |-> "No regular trading hours data available"]
    ELSE LET orb_analysis ==
                 [p \in {orb_periods[k] : k \in DOMAIN orb_periods} |->
                     period_analysis(d, d[1].close, p)]
         IN  [status |-> "success",
              orb_analysis |-> orb_analysis,
              trading_bias |-> analyze_orb_bias(orb_analysis),
              orb_squeeze |-> detect_orb_squeeze(orb_analysis),
              current_price |-> d[1].close]

ORBInit ==
    /\ df = <<>>
    /\ orb_result = None
    /\ NoZonesCall
    /\ NoIndicatorCall
    /\ current_time = 0
    /\ current_price = 0
    /\ gaps = <<>>
    /\ nearest_gaps = <<>>
    /\ pc = "orb"
    /\ bar_idx = 0
    /\ volume_by_price = <<>>
    /\ value_area_prices = <<>>
    /\ accumulated_volume = 0
    /\ left_idx = 0
    /\ right_idx = 0
    /\ vp_result = None

\* fetch_time_series(interval="1min"): the series is chronological, a bar a
\* minute; the minutes a bar added to d can have.
NextMinute(d) == IF d = <<>> THEN OrbStarts ELSE {d[Len(d)].datetime + 1}

\* The session of the documented scenario, (low, high, close, volume) by
\* minute: a 5-minute opening range of high = 101 and low = 100, then three
\* bars that close at 101.5; before the open, a bar that closes at 101.5.
OrbScenarioBar(t) ==
    IF t < 0 THEN <<10100, 10150, 10150, 1>>
    ELSE IF t <= 5 THEN <<10000, 10100, 10050, 1>>
    ELSE <<10100, 10150, 10150, 1>>
IsOrbScenario(d) == \A i \in DOMAIN d : d[i] = OrbCandle(d[i].datetime, OrbScenarioBar(d[i].datetime))
IsOrbSeries(d) ==
    \A i \in DOMAIN d : <<d[i].low, d[i].high, d[i].close, d[i].volume>> \in OrbBars

\* The next minute's bar is added to the series and the series is analysed.
ORBBar ==
    /\ Len(df) < MaxOrbBars
    /\ IsOrbSeries(df)
    /\ \E b \in OrbBars :
       \E t \in NextMinute(df) :
           /\ df' = Append(df, OrbCandle(t, b))
           /\ orb_result' = financial_orb_analysis(df')
           /\ current_price' = df'[1].close
    /\ UNCHANGED <<pc, bar_idx, vpVars, gaps, nearest_gaps, tzVars, taVars, current_time>>

\* The same for the session of the documented scenario.
ORBScenarioBar ==
    /\ IsOrbScenario(df)
    /\ \E t \in NextMinute(df) :
           /\ t <= 8
           /\ df' = Append(df, OrbCandle(t, OrbScenarioBar(t)))
           /\ orb_result' = financial_orb_analysis(df')
           /\ current_price' = df'[1].close
    /\ UNCHANGED <<pc, bar_idx, vpVars, gaps, nearest_gaps, tzVars, taVars, current_time>>

ORBNext == ORBBar \/ ORBScenarioBar

SpecORB == ORBInit /\ [][ORBNext]_vars

\* analyze_orb_bias on its own: the period results it is given are any
\* combination of the fields it reads.
BiasHits == {<<>>, <<"bull_0.5x">>, <<"bear_0.5x", "bear_1x">>}
BiasPeriod(kind, pos, high_volume, hits) ==
    [status |-> "None",
     breakout_confirmed |-> kind # "None",
     breakout_type |-> kind,
     position |-> pos,
     volume_analysis |-> [high_volume |-> high_volume],
     targets_hit |-> hits]
BiasPeriods ==
    {[status |-> "insufficient_data"]} \cup
    {BiasPeriod(kind, pos, hv, hits) :
         kind \in {"None", "bullish", "bearish"},
         pos \in {"above_range", "inside_range", "below_range"},
         hv \in BOOLEAN, hits \in BiasHits}

BiasInit ==
    /\ orb_result \in
           {[status |-> "input", orb_analysis |-> data] :
                data \in [{orb_periods[k] : k \in DOMAIN orb_periods} -> BiasPeriods]}
    /\ df = <<>>
    /\ current_price = 0
    /\ gaps = <<>>
    /\ nearest_gaps = <<>>
    /\ pc = "bias"
    /\ bar_idx = 0
    /\ volume_by_price = <<>>
    /\ value_area_prices = <<>>
    /\ accumulated_volume = 0
    /\ left_idx = 0
    /\ right_idx = 0
    /\ vp_result = None
    /\ NoZonesCall
    /\ NoIndicatorCall
    /\ current_time = 0

\* Lines 175-176 and 222-286: the bias of the period results.
BiasCall ==
    /\ orb_result.status = "input"
    /\ orb_result' = [status |-> "success",
                      orb_analysis |-> orb_result.orb_analysis,
                      trading_bias |-> analyze_orb_bias(orb_result.orb_analysis)]
    /\ UNCHANGED <<df, pc, bar_idx, vpVars, fvgVars, tzVars, taVars, current_time>>

BiasNext == BiasCall

SpecBias == BiasInit /\ [][BiasNext]_vars

(***************************************************************************)
(* Properties of the Opening Range Breakout                                *)
(***************************************************************************)
OrbAnalysed == orb_result # None /\ orb_result.status = "success"
PeriodsAnalysed ==
    IF OrbAnalysed
    THEN {p \in DOMAIN orb_result.orb_analysis :
             orb_result.orb_analysis[p].status # "insufficient_data"}
    ELSE {}
\* The closes of the regular-hours bars after the window of period p
PostCloses(p) ==
    [i \in {j \in DOMAIN df : df[j].datetime > p /\ df[j].datetime <= MarketCloseMinute}
        |-> df[i].close]
CountWhere(f, T(_)) == Cardinality({i \in DOMAIN f : T(f[i])})

\* C6: in every period result breakout_confirmed holds, with breakout_type
\* T, only if (a) some post-window close is beyond T's boundary by the 0.1%
\* buffer, (b) at least 3 post-window closes are beyond that boundary, and
\* (c) position is on T's side.
C6_BreakoutConfirmed ==
    \A p \in PeriodsAnalysed :
        LET r == orb_result.orb_analysis[p]
            closes == PostCloses(p)
        IN  /\ r.breakout_confirmed <=> r.breakout_type \in {"bullish", "bearish"}
            /\ (r.breakout_confirmed /\ r.breakout_type = "bullish") =>
                   /\ \E i \in DOMAIN closes : closes[i] * 1000 > r.orb_high * 1001
                   /\ CountWhere(closes, LAMBDA c : c > r.orb_high) >= 3
                   /\ r.position = "above_range"
            /\ (r.breakout_confirmed /\ r.breakout_type = "bearish") =>
                   /\ \E i \in DOMAIN closes : closes[i] * 1000 < r.orb_low * 999
                   /\ CountWhere(closes, LAMBDA c : c < r.orb_low) >= 3
                   /\ r.position = "below_range"

C6_Witness ==
    \E p, q \in PeriodsAnalysed :
        /\ orb_result.orb_analysis[p].breakout_confirmed
        /\ orb_result.orb_analysis[p].breakout_type = "bullish"
        /\ ~orb_result.orb_analysis[q].breakout_confirmed
        /\ orb_result.orb_analysis[q].position = "above_range"
        /\ CountWhere(PostCloses(q), LAMBDA c : c > orb_result.orb_analysis[q].orb_high) >= 3

\* C7: in every period result the targets are orb_high + k * orb_range
\* (bull) and orb_low - k * orb_range (bear) for k in {0.5, 1, 1.5, 2},
\* reported rounded to 2 decimals, and a target is in targets_hit if and
\* only if current_price >= its level (bull) or current_price <= its level
\* (bear).
C7_Targets ==
    \A p \in PeriodsAnalysed :
        LET r == orb_result.orb_analysis[p]
            level(k) == IF k <= 4 THEN 2 * r.orb_high + k * r.orb_range
                        ELSE 2 * r.orb_low - (k - 4) * r.orb_range
            hit == {r.targets_hit[i] : i \in DOMAIN r.targets_hit}
        IN  /\ r.orb_range = r.orb_high - r.orb_low
            /\ Len(r.targets_hit) = Cardinality(hit)
            /\ \A k \in 1..8 :
                   /\ r.targets[k] = RoundHalfEven(level(k), 2)
                   /\ target_names[k] \in hit <=>
                          IF k <= 4 THEN 2 * r.current_price >= level(k)
                          ELSE 2 * r.current_price <= level(k)

C7_Witness ==
    \E p \in PeriodsAnalysed :
        LET r == orb_result.orb_analysis[p]
        IN  /\ r.orb_range = 1
            /\ Len(r.targets_hit) = 2
            /\ 2 * r.current_price = 2 * r.orb_high + 2 * r.orb_range

\* C11: for a session whose 5-minute opening range has high = 101 and low =
\* 100 and is followed by three bars that close at 101.5, the 5min result has
\* breakout_confirmed = true, breakout_type = "bullish", the target bull_1x =
\* 102 not in targets_hit and the target bull_0.5x = 101.5 in targets_hit.
OrbScenarioComplete ==
    /\ df # <<>>
    /\ IsOrbScenario(df)
    /\ df[Len(df)].datetime = 8

C11_OrbScenario ==
    OrbScenarioComplete =>
        /\ OrbAnalysed
        /\ LET r == orb_result.orb_analysis[5]
               hit == {r.targets_hit[i] : i \in DOMAIN r.targets_hit}
           IN  /\ r.status # "insufficient_data"
               /\ r.orb_high = 10100
               /\ r.orb_low = 10000
               /\ r.breakout_confirmed
               /\ r.breakout_type = "bullish"
               /\ r.targets[1] = 10150
               /\ r.targets[2] = 10200
               /\ "bull_0.5x" \in hit
               /\ "bull_1x" \notin hit

(***************************************************************************)
(* Technical zones: financial_technical_zones(symbol)                      *)
(*                                                                         *)
(* A fetched bar series is kept as its length, its lowest low, its highest *)
(* high and its last close: these are what the status bookkeeping and the  *)
(* guards of the two local calculations read.  A zone is kept as its type, *)
(* name and source; a Fibonacci zone also carries its level, in ticks.     *)
(* The levels of the other zones and the node ranges of the profile are    *)
(* not carried.                                                            *)
(***************************************************************************)
timeframes_config_Intraday == <<"1m", "5m">>
timeframes_config == <<"1m", "5m", "1d">>
fib_lookback_periods == 50

Series(n, l, h) == [len |-> n, low |-> l, high |-> h, close |-> h]
EmptySeries == Series(0, 0, 0)
Some(v) == [is_none |-> FALSE, value |-> v]

\* What fetch_time_series can hand back for the bars of a timeframe: null,
\* an empty frame, or a frame of 1 or 50 bars over a flat or an open range.
BarFetches ==
    {None, EmptySeries} \cup
    {Series(n, 10000, h) : n \in {1, fib_lookback_periods}, h \in {10000, 10100}}
\* What fetch_atr can hand back: null, no points, a last point without a
\* usable 'atr', a last point whose 'atr' parses.
AtrFetches == {None, Some(<<>>), Some(<<[atr |-> None]>>), Some(<<[atr |-> Some(50)]>>)}
\* What the fetch of the daily bars can hand back: null, one bar, two bars.
PrevDayFetches == {None, Series(1, 9900, 10200), Series(2, 9900, 10200)}

Zone(type, name, source) == [type |-> type, name |-> name, source |-> source]
VP_SOURCE == "Volume Profile"
FIB_SOURCE == "Fibonacci"
ATR_SOURCE == "ATR Calculation"
PD_SOURCE == "Price Action (Daily Bar)"

\* calculate_volume_profile as far as the caller sees it: None for an empty
\* frame or a price range of zero width, else a profile.
tz_vp_result(df_bars) ==
    IF df_bars.len = 0 \/ df_bars.low >= df_bars.high THEN None
    ELSE Some("profile")
vp_zones(vp) ==
    IF vp = None THEN <<>>
    ELSE << Zone("NEUTRAL", "POC", VP_SOURCE),
            Zone("RESISTANCE", "VAH", VP_SOURCE),
            Zone("SUPPORT", "VAL", VP_SOURCE) >>

\* calculate_fibonacci_levels: no zones for fewer than lookback_periods bars
\* or a swing of zero height; else the nine levels, in thousandths of the
\* swing, typed against the last close.
fib_ratios == <<0, 236, 382, 500, 618, 786, 1000, 1272, 1618>>
fib_names == <<"Fib 0.0", "Fib 0.236", "Fib 0.382", "Fib 0.5", "Fib 0.618",
               "Fib 0.786", "Fib 1.0", "Fib 1.272", "Fib 1.618">>
\* The level of ratio k, in thousandths of a tick.
fib_level_price(df_bars, k) ==
    df_bars.low * 1000 + (df_bars.high - df_bars.low) * fib_ratios[k]
\* round(level_price, price_precision)
fib_level(df_bars, k) == RoundHalfEven(fib_level_price(df_bars, k), 1000)
FibZone(type, name, level, source) ==
    [type |-> type, name |-> name, level |-> level, source |-> source]
fib_zone_type_NotBelow(df_bars, k) ==
    IF fib_ratios[k] <= 1000
    THEN IF df_bars.close * 1000 >= fib_level_price(df_bars, k)
         THEN "SUPPORT" ELSE "RESISTANCE"
    ELSE "TARGET_UPSIDE"
fib_zone_type(df_bars, k) ==
    IF fib_ratios[k] <= 1000
    THEN IF df_bars.close * 1000 >
              df_bars.low * 1000 + (df_bars.high - df_bars.low) * fib_ratios[k]
         THEN "SUPPORT" ELSE "RESISTANCE"
    ELSE "TARGET_UPSIDE"
calculate_fibonacci_levels(df_bars) ==
    IF df_bars.len = 0 \/ df_bars.len < fib_lookback_periods THEN <<>>
    ELSE IF df_bars.high <= df_bars.low THEN <<>>
    ELSE [k \in 1..Len(fib_ratios) |->
             FibZone(fib_zone_type(df_bars, k), fib_names[k],
                     fib_level(df_bars, k), FIB_SOURCE)]

\* Lines 87-163: status and zones after the bars.
bars_status(df_bars) ==
    IF df_bars = None THEN "success"
    ELSE IF df_bars.len = 0 THEN "warning"
    ELSE LET after_vp == IF tz_vp_result(df_bars) = None
                         THEN "partial_success" ELSE "success"
         IN  IF calculate_fibonacci_levels(df_bars) = <<>>
             THEN IF after_vp = "success" THEN "warning" ELSE after_vp
             ELSE after_vp
bars_zones(df_bars) ==
    IF df_bars = None \/ df_bars = EmptySeries THEN <<>>
    ELSE vp_zones(tz_vp_result(df_bars)) \o calculate_fibonacci_levels(df_bars)

\* Lines 166-189: the latest ATR value, None when there is none to use.
atr_parses(atr_data) ==
    /\ atr_data # None
    /\ atr_data.value # <<>>
    /\ atr_data.value[Len(atr_data.value)].atr # None
atr_value(atr_data) ==
    IF atr_parses(atr_data) THEN atr_data.value[Len(atr_data.value)].atr ELSE None
atr_status(frame_status, atr_data) ==
    IF atr_data = None \/ atr_data.value = <<>> THEN frame_status
    ELSE IF atr_parses(atr_data) THEN frame_status
    ELSE IF frame_status = "success" THEN "partial_success" ELSE frame_status
atr_zones_WithoutBars(df_bars, atr_data) ==
    IF atr_value(atr_data) # None
    THEN << Zone("TARGET_UPSIDE", "+1 ATR", ATR_SOURCE),
            Zone("TARGET_DOWNSIDE", "-1 ATR", ATR_SOURCE) >>
    ELSE <<>>
\* Lines 193-209.
atr_zones(df_bars, atr_data) ==
    IF atr_value(atr_data) # None /\ df_bars # None /\ df_bars # EmptySeries
    THEN << Zone("TARGET_UPSIDE", "+1 ATR", ATR_SOURCE),
            Zone("TARGET_DOWNSIDE", "-1 ATR", ATR_SOURCE) >>
    ELSE <<>>

\* Lines 212-246: the previous day's high and low, for the intraday frames.
wants_prev_day(timeframe_key) == timeframe_key \in {"1m", "5m"}
prev_day_zones(timeframe_key, prev_day_df) ==
    IF wants_prev_day(timeframe_key) /\ prev_day_df # None /\ prev_day_df.len >= 2
    THEN << Zone("RESISTANCE", "Previous Day High", PD_SOURCE),
            Zone("SUPPORT", "Previous Day Low", PD_SOURCE) >>
    ELSE <<>>

\* Lines 89, 171, 224.
frame_fetch_failed(timeframe_key, f) ==
    \/ f.bars = None
    \/ f.atr = None
    \/ wants_prev_day(timeframe_key) /\ f.prev_day = None

technical_zones_list(timeframe_key, f) ==
    bars_zones(f.bars) \o atr_zones(f.bars, f.atr)
        \o prev_day_zones(timeframe_key, f.prev_day)

\* Lines 249-256.
final_frame_status(timeframe_key, f) ==
    IF frame_fetch_failed(timeframe_key, f) THEN "error"
    ELSE IF technical_zones_list(timeframe_key, f) = <<>> THEN "warning"
    ELSE atr_status(bars_status(f.bars), f.atr)

\* Lines 269-278.
frame_entry(timeframe_key, f) ==
    [timeframe |-> timeframe_key,
     technical_zones |-> technical_zones_list(timeframe_key, f),
     status |-> final_frame_status(timeframe_key, f)]

update_overall_status_Latest(overall, final_status) ==
    IF final_status = "error" THEN "error"
    ELSE IF final_status \in {"partial_success", "warning"} THEN "partial_success"
    ELSE overall
\* Lines 281-284.
update_overall_status(overall, final_status) ==
    IF final_status = "error" THEN "error"
    ELSE IF final_status \in {"partial_success", "warning"} /\ overall = "success"
         THEN "partial_success"
    ELSE overall

\* The providers' answers for one timeframe; the daily bars are fetched for
\* the intraday frames only.
Fetches(timeframe_key) ==
    { [bars |-> b, atr |-> a, prev_day |-> p] :
          b \in BarFetches, a \in AtrFetches,
          p \in IF wants_prev_day(timeframe_key) THEN PrevDayFetches ELSE {None} }

TZInit ==
    /\ NoZonesCall
    /\ NoIndicatorCall
    /\ current_time = 0
    /\ df = <<>>
    /\ pc = "zones"
    /\ bar_idx = 0
    /\ volume_by_price = <<>>
    /\ value_area_prices = <<>>
    /\ accumulated_volume = 0
    /\ left_idx = 0
    /\ right_idx = 0
    /\ vp_result = None
    /\ current_price = 0
    /\ gaps = <<>>
    /\ nearest_gaps = <<>>
    /\ orb_result = None

\* Lines 50-284: one pass of the loop over the timeframes.
TZFrame ==
    /\ response_data = None
    /\ Len(fetched) < Len(timeframes_config)
    /\ LET timeframe_key == timeframes_config[Len(fetched) + 1]
       IN  \E f \in Fetches(timeframe_key) :
               LET entry == frame_entry(timeframe_key, f)
               IN  /\ fetched' = Append(fetched, f)
                   /\ timeframe_zones_data' = Append(timeframe_zones_data, entry)
                   /\ overall_status' =
                          update_overall_status(overall_status, entry.status)
    /\ UNCHANGED <<df, pc, bar_idx, vpVars, fvgVars, orb_result, response_data,
                   taVars, current_time>>

\* Lines 286-305: the response.
TZReturn ==
    /\ response_data = None
    /\ Len(fetched) = Len(timeframes_config)
    /\ response_data' =
           [status |-> IF overall_status = "success" /\ timeframe_zones_data = <<>>
                       THEN "warning" ELSE overall_status,
            timeframe_zones |-> timeframe_zones_data]
    /\ UNCHANGED <<df, pc, bar_idx, vpVars, fvgVars, orb_result, fetched,
                   timeframe_zones_data, overall_status, taVars, current_time>>

TZNext == TZFrame \/ TZReturn

SpecTZ == TZInit /\ [][TZNext]_vars

(***************************************************************************)
(* Properties of financial_technical_zones                                 *)
(***************************************************************************)
Processed == 1..Len(timeframe_zones_data)
NoNullFetch(i) == ~frame_fetch_failed(timeframes_config[i], fetched[i])
HasBars(i) == fetched[i].bars # None /\ fetched[i].bars.len > 0
ZoneSources(i) ==
    {timeframe_zones_data[i].technical_zones[k].source :
         k \in DOMAIN timeframe_zones_data[i].technical_zones}
StatusesAre(statuses) ==
    /\ Len(timeframe_zones_data) = Len(statuses)
    /\ \A i \in Processed : timeframe_zones_data[i].status = statuses[i]

\* C12: a timeframe's status is "error" only when the bar fetch of that
\* timeframe returned null; a null from the ATR feed or from the fetch of the
\* prior day's bars never makes it "error".
C12_ErrorOnlyOnBarFetch ==
    \A i \in Processed :
        timeframe_zones_data[i].status = "error" => fetched[i].bars = None

\* C13: for a timeframe whose bar fetch returned a non-empty series, where no
\* fetch returned null and at least one zone was produced, the status is
\* "partial_success" whenever a sub-computation degraded: the Volume Profile
\* is null, Fibonacci gave no zones, the ATR feed is empty or its last value
\* does not parse.
Degraded(i) ==
    \/ tz_vp_result(fetched[i].bars) = None
    \/ calculate_fibonacci_levels(fetched[i].bars) = <<>>
    \/ ~atr_parses(fetched[i].atr)
C13_DegradedIsPartial ==
    \A i \in Processed :
        ( /\ HasBars(i)
          /\ NoNullFetch(i)
          /\ timeframe_zones_data[i].technical_zones # <<>>
          /\ Degraded(i) )
        => timeframe_zones_data[i].status = "partial_success"

\* C14: the overall status is the maximum severity over the statuses of the
\* timeframes processed, under error > partial_success/warning > success, in
\* the running value and in the response; and the running value never
\* decreases in severity from one timeframe to the next.
Severity(status) ==
    IF status = "error" THEN 2
    ELSE IF status \in {"partial_success", "warning"} THEN 1
    ELSE 0
MaxSeverity == SetMax({0} \cup {Severity(timeframe_zones_data[i].status) : i \in Processed})
OverallIsMaxSeverity ==
    /\ Severity(overall_status) = MaxSeverity
    /\ overall_status = "error" <=>
           \E i \in Processed : timeframe_zones_data[i].status = "error"
    /\ overall_status = "success" <=>
           \A i \in Processed : timeframe_zones_data[i].status = "success"
    /\ response_data # None => response_data.status = overall_status
C14_OverallStatus ==
    /\ []OverallIsMaxSeverity
    /\ [][Severity(overall_status') >= Severity(overall_status)]_vars
C14_Witness ==
    /\ response_data # None
    /\ StatusesAre(<<"partial_success", "error", "warning">>)
    /\ response_data.status = "error"

C16_EmptyBarsWarn ==
    \A i \in Processed :
        (fetched[i].bars = EmptySeries /\ NoNullFetch(i)) =>
            /\ timeframe_zones_data[i].status = "warning"
            /\ ZoneSources(i) \cap {VP_SOURCE, FIB_SOURCE, ATR_SOURCE} = {}
C16_Witness ==
    \E i, j \in Processed :
        /\ fetched[i].bars = EmptySeries /\ fetched[j].bars = EmptySeries
        /\ NoNullFetch(i) /\ NoNullFetch(j)
        /\ atr_parses(fetched[i].atr)
        /\ ZoneSources(i) = {PD_SOURCE}
        /\ ZoneSources(j) = {}

(***************************************************************************)
(* The indicator operations and the frame they are given                   *)
(*                                                                         *)
(* The frame is the bar series df with its set of columns.  What a call    *)
(* returns is kept as None or as the kind of result it computes, except    *)
(* for the Fibonacci zones and the lagging span of the Ichimoku result,    *)
(* which are carried; the other indicator values and the values of the     *)
(* columns a call adds are not.                                            *)
(***************************************************************************)
MaxTaBars == 52
min_ichimoku_bars == 52
min_momentum_bars == 20
min_trend_bars == 50
min_divergence_bars == 34

BarColumns == {"datetime", "open", "high", "low", "close", "volume"}
\* A session that climbs for three bars and falls back, again and again.
TaCandle(t) ==
    LET open == 1000 + 3 * (t % 3)
    IN  [datetime |-> t, open |-> open, low |-> open - 1, high |-> open + 2,
         close |-> open + 1, volume |-> 1 + (t % 2)]
TaSeries(n) == [t \in 1..n |-> TaCandle(t)]
\* The same session with its last bar closing on its high.
ClosingHigh(d) ==
    IF d = <<>> THEN d ELSE [d EXCEPT ![Len(d)].close = d[Len(d)].high]
\* A session in which no bar moves off 1000.
FlatSeries(n) ==
    [t \in 1..n |-> [datetime |-> t, open |-> 1000, low |-> 1000, high |-> 1000,
                     close |-> 1000, volume |-> 1]]
TaFrames ==
    UNION {{TaSeries(n), ClosingHigh(TaSeries(n)), FlatSeries(n)} : n \in 0..MaxTaBars}

\* df.tail(n)
tail(d, n) == SubSeq(d, Len(d) - Min2(n, Len(d)) + 1, Len(d))
\* What the two zone calculations read of the frame.
FrameView(d, recent) ==
    IF d = <<>> THEN EmptySeries
    ELSE [len |-> Len(d),
          low |-> SetMin({recent[i].low : i \in DOMAIN recent}),
          high |-> SetMax({recent[i].high : i \in DOMAIN recent}),
          close |-> d[Len(d)].close]

\* The result of a call that needs at least min_bars bars.
Computed(d, min_bars, kind) == IF Len(d) < min_bars THEN None ELSE Some(kind)
\* Lines 259 and 280-281: df['close'].shift(-kijun_period), the close of the
\* bar kijun_period places later, NaN where the frame has no such bar.
kijun_period == 26
chikou_span(d) ==
    [i \in DOMAIN d |->
        IF i + kijun_period <= Len(d) THEN Some(d[i + kijun_period].close) ELSE None]
\* Lines 253-254 and 309-317: None below 52 bars, else the result, of which
\* the lagging span is carried: chikou_span.iloc[-kijun_period], None when
\* that entry is NaN.
calculate_ichimoku(d) ==
    IF Len(d) < min_ichimoku_bars THEN None
    ELSE Some([chikou_span |->
                  IF Len(d) > kijun_period
                  THEN chikou_span(d)[Len(d) - kijun_period + 1] ELSE None])
\* Lines 393 and 473-475: the columns the frame has after the call.
momentum_columns(d, cols) ==
    IF Len(d) < min_momentum_bars THEN cols ELSE cols \cup {"obv"}
trend_columns(d, cols) ==
    IF Len(d) < min_trend_bars THEN cols ELSE cols \cup {"sma20", "sma50", "ema20"}

TAInit ==
    /\ df \in TaFrames
    /\ columns = BarColumns
    /\ ta_result = None
    /\ current_time = 0
    /\ NoZonesCall
    /\ pc = "ta"
    /\ bar_idx = 0
    /\ volume_by_price = <<>>
    /\ value_area_prices = <<>>
    /\ accumulated_volume = 0
    /\ left_idx = 0
    /\ right_idx = 0
    /\ vp_result = None
    /\ current_price = 0
    /\ gaps = <<>>
    /\ nearest_gaps = <<>>
    /\ orb_result = None

\* A call that returns result and leaves the frame with the columns cols.
TACall(operation, result, cols) ==
    /\ ta_result' = [operation |-> operation, returned |-> result]
    /\ columns' = cols
    /\ UNCHANGED <<df, pc, bar_idx, vpVars, fvgVars, orb_result, tzVars, current_time>>

TAVolumeProfile ==
    TACall("calculate_volume_profile", tz_vp_result(FrameView(df, df)), columns)
TAFibonacci ==
    TACall("calculate_fibonacci_levels",
           calculate_fibonacci_levels(FrameView(df, tail(df, fib_lookback_periods))),
           columns)
TAIchimoku ==
    TACall("calculate_ichimoku", calculate_ichimoku(df), columns)
TAVolumeMomentum ==
    TACall("calculate_volume_momentum_indicators",
           Computed(df, min_momentum_bars, "volume_momentum"),
           momentum_columns(df, columns))
TATrendStrength ==
    TACall("calculate_trend_strength", Computed(df, min_trend_bars, "trend_strength"),
           trend_columns(df, columns))
TADivergences ==
    TACall("detect_divergences", Computed(df, min_divergence_bars, "divergences"),
           columns)
TAFvgs ==
    \E cp \in FvgCurrentPrices :
        TACall("detect_fvgs", detect_fvgs(df, cp, Lookback, Len(df)), columns)

TANext ==
    \/ TAVolumeProfile
    \/ TAFibonacci
    \/ TAIchimoku
    \/ TAVolumeMomentum
    \/ TATrendStrength
    \/ TADivergences
    \/ TAFvgs

SpecTA == TAInit /\ [][TANext]_vars

\* C17: no analytics operation changes the bar series it is given: after a
\* call of calculate_volume_profile, calculate_fibonacci_levels,
\* calculate_ichimoku, calculate_volume_momentum_indicators,
\* calculate_trend_strength, detect_divergences or detect_fvgs the frame has
\* the same bars and the same fields as before.
C17_FrameUntouched == [][df' = df /\ columns' = columns]_vars

\* C18: detect_fvgs is a pure function of the series, the timeframe, the
\* current price, lookback_periods and min_gap_percentage: two calls with the
\* same arguments, made at any two moments, return the same gaps in every
\* field, id and age included.
C18_SameCallSameGaps ==
    [][(df # <<>> /\ df' = df /\ current_price' = current_price) => gaps' = gaps]_vars

\* C19: for every gap detect_fvgs returns, a gap whose three-bar window ends
\* at the last bar included, currently_inside is true exactly when
\* gap_low <= current_price <= gap_high.
C19_InsideIffWithinBounds ==
    \A r \in DOMAIN gaps :
        gaps[r].currently_inside_gap <=>
            (gaps[r].gap_low <= current_price /\ current_price <= gaps[r].gap_high)

\* C20: for every gap detect_fvgs returns, 0 <= filled_percentage <= 100 and
\* times_tested is the number of bars after the gap's window whose [low,
\* high] meets [gap_low, gap_high]; with no test filled_percentage is 0 and
\* lowest_test and highest_test are absent; with a test gap_low <=
\* lowest_test <= highest_test <= gap_high and filled_percentage is
\* min(100, (highest_test - lowest_test) / gap_size * 100).
BarsAfter(g) == {k \in DOMAIN df : df[k].datetime > g.timestamp}
TestsOf(g) == {k \in BarsAfter(g) : df[k].low <= g.gap_high /\ df[k].high >= g.gap_low}
FracEq(x, y) == x.num * y.den = y.num * x.den
TestBookkeeping(g) ==
    /\ 0 <= g.filled_percentage.num
    /\ g.filled_percentage.den > 0
    /\ g.filled_percentage.num <= 100 * g.filled_percentage.den
    /\ g.times_tested = Cardinality(TestsOf(g))
    /\ g.times_tested = 0 =>
           /\ g.filled_percentage.num = 0
           /\ g.lowest_test = None
           /\ g.highest_test = None
    /\ g.times_tested > 0 =>
           /\ g.gap_low <= g.lowest_test
           /\ g.lowest_test <= g.highest_test
           /\ g.highest_test <= g.gap_high
           /\ FracEq(g.filled_percentage,
                     IF g.highest_test - g.lowest_test >= g.gap_size
                     THEN Frac(100, 1)
                     ELSE Frac((g.highest_test - g.lowest_test) * 100, g.gap_size))
C20_TestBookkeeping == \A r \in DOMAIN gaps : TestBookkeeping(gaps[r])
C20_Witness ==
    \E r, s \in DOMAIN gaps :
        /\ gaps[r].times_tested > 0
        /\ 0 < gaps[r].filled_percentage.num
        /\ gaps[r].filled_percentage.num < 100 * gaps[r].filled_percentage.den
        /\ gaps[s].times_tested = 0
        /\ BarsAfter(gaps[s]) # {}

\* C21: detect_fvgs returns exactly one gap for each window of three
\* consecutive bars (c1, c2, c3) inside the most recent lookback_periods bars
\* with c1.high < c3.low (bullish, gap = [c1.high, c3.low]) or c1.low >
\* c3.high (bearish, gap = [c3.high, c1.low]) that passes the minimum-size
\* filter, and none for any other window; the boundaries are read from c1 and
\* c3 only, and the gaps are listed from the newest window to the oldest.
\* A window is named by the place in df of its last bar c3.
RecentWindows == {i \in DOMAIN df : i - 2 >= 1 /\ i - 2 > Len(df) - Lookback}
WindowBullish(i) == df[i - 2].high < df[i].low
WindowBearish(i) == df[i - 2].low > df[i].high
WindowLow(i) == IF WindowBullish(i) THEN df[i - 2].high ELSE df[i].high
WindowHigh(i) == IF WindowBullish(i) THEN df[i].low ELSE df[i - 2].low
Qualifies(i) ==
    /\ WindowBullish(i) \/ WindowBearish(i)
    /\ (WindowHigh(i) - WindowLow(i)) * 2000 >= MinGapPerMille * (WindowHigh(i) + WindowLow(i))
B2N(b) == IF b THEN 1 ELSE 0
SideHits(r, side) ==
    Cardinality({i \in DOMAIN r.targets_hit :
                    r.targets_hit[i] \in {target_names[k] : k \in (IF side = "bullish" THEN 1..4 ELSE 5..8)}})
SideSignals(side, outside) ==
    SeqSum([k \in DOMAIN orb_periods |->
               IF orb_periods[k] \in PeriodsAnalysed
               THEN LET r == orb_result.orb_analysis[orb_periods[k]]
                    IN  2 * B2N(r.breakout_confirmed /\ r.breakout_type = side)
                        + B2N(r.position = outside)
                        + B2N(r.volume_analysis.high_volume /\ r.position = outside)
                        + SideHits(r, side)
               ELSE 0])
C22_SignalCounts ==
    OrbAnalysed =>
        /\ orb_result.trading_bias.bullish_signals = SideSignals("bullish", "above_range")
        /\ orb_result.trading_bias.bearish_signals = SideSignals("bearish", "below_range")
C22_Witness ==
    /\ OrbAnalysed
    /\ orb_result.orb_analysis[1].status = "insufficient_data"
    /\ orb_result.orb_analysis[2].status # "insufficient_data"
    /\ orb_result.orb_analysis[2].breakout_type = "bullish"
    /\ orb_result.orb_analysis[2].volume_analysis.high_volume
    /\ orb_result.trading_bias.bullish_signals = 6
    /\ orb_result.trading_bias.bearish_signals = 3

\* C23: bias is bullish iff bullish_signals > 1.5 * bearish_signals, bearish
\* iff it is not bullish and bearish_signals > 1.5 * bullish_signals, else
\* neutral; confidence is high iff the dominant side exceeds twice the other,
\* medium for any other bias that is not neutral, and low exactly when the
\* bias is neutral; equal counts, 0 and 0 included, give neutral and low.
C23_BiasAndConfidence ==
    OrbAnalysed =>
        LET t == orb_result.trading_bias
            b == t.bullish_signals
            s == t.bearish_signals
            dominant == IF t.bias = "bullish" THEN b ELSE s
            other == IF t.bias = "bullish" THEN s ELSE b
        IN  /\ t.bias \in {"bullish", "bearish", "neutral"}
            /\ t.bias = "bullish" <=> 2 * b > 3 * s
            /\ t.bias = "bearish" <=> (~(2 * b > 3 * s) /\ 2 * s > 3 * b)
            /\ t.confidence \in {"high", "medium", "low"}
            /\ t.confidence = "low" <=> t.bias = "neutral"
            /\ t.confidence = "high" <=> (t.bias # "neutral" /\ dominant > 2 * other)
            /\ b = s => (t.bias = "neutral" /\ t.confidence = "low")
C23_Witness ==
    /\ OrbAnalysed
    /\ orb_result.trading_bias.bearish_signals = 4
    /\ orb_result.trading_bias.bullish_signals = 2
    /\ orb_result.trading_bias.bias = "bearish"
    /\ orb_result.trading_bias.confidence = "medium"

\* C24: the value-area expansion terminates for every input; each step adds
\* exactly one bin not yet included, the adjacent lower-price bin when its
\* volume is >= the adjacent higher-price bin's (a tie goes to the lower
\* side) or when the higher side is exhausted, else the adjacent higher-price
\* bin; it stops as soon as the accumulated volume reaches 70% of the total
\* or both sides are exhausted.
AreaIdx ==
    {i \in DOMAIN all_prices_sorted(volume_by_price) :
         all_prices_sorted(volume_by_price)[i] \in ValueArea}
HasLower == SetMin(AreaIdx) > 1
HasHigher == SetMax(AreaIdx) < Len(all_prices_sorted(volume_by_price))
LowerBin == all_prices_sorted(volume_by_price)[SetMin(AreaIdx) - 1]
HigherBin == all_prices_sorted(volume_by_price)[SetMax(AreaIdx) + 1]
ReachedShare == 10 * accumulated_volume >= 7 * total_volume(volume_by_price)
ExpansionStep ==
    pc = "expand" =>
        /\ value_area_prices' # value_area_prices =>
               /\ ~ReachedShare
               /\ HasLower \/ HasHigher
               /\ \E p \in OccupiedBins \ ValueArea :
                      /\ value_area_prices' = Append(value_area_prices, p)
                      /\ accumulated_volume' = accumulated_volume + GetVolume(volume_by_price, p)
                      /\ p = IF HasLower /\ (~HasHigher \/ GetVolume(volume_by_price, LowerBin)
                                                          >= GetVolume(volume_by_price, HigherBin))
                             THEN LowerBin ELSE HigherBin
        /\ (value_area_prices' = value_area_prices /\ pc' # pc) =>
               ReachedShare \/ (~HasLower /\ ~HasHigher)
\* The loop is over: its condition is false, it was left by break, or the
\* call has returned.
LoopOver ==
    \/ pc \in {"break", "done"}
    \/ pc = "expand" /\ ~BelowValueArea(accumulated_volume, volume_by_price)
C24_ExpansionTerminates ==
    /\ [][ExpansionStep]_vars
    /\ <>LoopOver
C24_Witness ==
    /\ pc = "expand"
    /\ Len(value_area_prices) = 2
    /\ value_area_prices[2] < value_area_prices[1]
    /\ HasHigher
    /\ GetVolume(volume_by_price, value_area_prices[2]) = GetVolume(volume_by_price, HigherBin)
    /\ GetVolume(volume_by_price, HigherBin) > 0

\* C25: when the volume nodes are built, a qualifying bin is merged into an
\* existing node whenever its price is within 1.5 bin-widths of that node's
\* lower or upper edge, the merge widening the node's span and keeping the
\* maximum volume seen (the minimum for Low Volume Nodes); a new node is
\* started only when the bin is within 1.5 bin-widths of no existing node's
\* edge; at most 5 nodes are returned, in discovery order.
NearEitherEdge(price, node) ==
    \/ 2 * NumBins * Abs(price - node.start) <= 3 * price_range(df)
    \/ 2 * NumBins * Abs(price - node.end) <= 3 * price_range(df)
MergeAtEitherEdge(nodes, e, highs) ==
    LET near == {n \in DOMAIN nodes : NearEitherEdge(e.price, nodes[n])}
    IN  IF near = {} THEN Append(nodes, new_node(e, df))
        ELSE [nodes EXCEPT ![SetMin(near)] = merged_node(@, e, highs)]
RECURSIVE NodesAtEitherEdge(_, _, _)
NodesAtEitherEdge(entries, k, highs) ==
    IF k = 0 THEN <<>>
    ELSE MergeAtEitherEdge(NodesAtEitherEdge(entries, k - 1, highs), entries[k], highs)
C25_NodesMergeAtEitherEdge ==
    VPReturned =>
        LET highs == hvn_entries(sorted_prices(volume_by_price))
            lows == lvn_entries(sorted_prices(volume_by_price))
        IN  /\ vp_result.high_volume_nodes =
                   first_five(NodesAtEitherEdge(highs, Len(highs), TRUE))
            /\ vp_result.low_volume_nodes =
                   first_five(NodesAtEitherEdge(lows, Len(lows), FALSE))

\* C26: calculate_fibonacci_levels returns no zones when the frame has fewer
\* than lookback_periods bars or the highest high of the last
\* lookback_periods bars is not above their lowest low.  Otherwise it returns
\* nine zones, one per ratio 0, 0.236, 0.382, 0.5, 0.618, 0.786, 1.0, 1.272,
\* 1.618 in this order, whose reported levels never decrease; a ratio up to
\* 1.0 is SUPPORT iff the last close is strictly above the ratio's level
\* swing_low + ratio * (swing_high - swing_low), else RESISTANCE; a ratio
\* above 1.0 is TARGET_UPSIDE.
FibCalled == ta_result # None /\ ta_result.operation = "calculate_fibonacci_levels"
RecentBars == tail(df, fib_lookback_periods)
SwingLow == SetMin({RecentBars[i].low : i \in DOMAIN RecentBars})
SwingHigh == SetMax({RecentBars[i].high : i \in DOMAIN RecentBars})
FibRejected == Len(df) < fib_lookback_periods \/ SwingHigh <= SwingLow
LastCloseAbove(k) ==
    df[Len(df)].close * 1000 > SwingLow * 1000 + (SwingHigh - SwingLow) * fib_ratios[k]
C26_FibonacciZones ==
    FibCalled =>
        LET zones == ta_result.returned
        IN  IF FibRejected THEN zones = <<>>
            ELSE /\ Len(zones) = 9
                 /\ \A k \in 1..9 : zones[k].name = fib_names[k]
                 /\ \A k \in 1..8 : zones[k].level <= zones[k + 1].level
                 /\ \A k \in 1..9 :
                       zones[k].type =
                           IF fib_ratios[k] > 1000 THEN "TARGET_UPSIDE"
                           ELSE IF LastCloseAbove(k) THEN "SUPPORT"
                           ELSE "RESISTANCE"
\* The call on a frame whose last close is exactly the swing high: the zone of
\* ratio 1.0 sits at the close and is RESISTANCE, the zones below are SUPPORT.
C26_Witness ==
    /\ FibCalled
    /\ ~FibRejected
    /\ df[Len(df)].close = SwingHigh
    /\ ta_result.returned[7].level = df[Len(df)].close
    /\ ta_result.returned[7].type = "RESISTANCE"
    /\ ta_result.returned[6].type = "SUPPORT"

\* C30: for every frame of at least 52 bars calculate_ichimoku returns a
\* result whose chikou_span is not null and is the close of the bar 26 places
\* before the last one.
IchimokuCalled == ta_result # None /\ ta_result.operation = "calculate_ichimoku"
C30_ChikouIsAClose ==
    (IchimokuCalled /\ Len(df) >= min_ichimoku_bars) =>
        /\ ta_result.returned # None
        /\ ta_result.returned.value.chikou_span # None
        /\ ta_result.returned.value.chikou_span.value = df[Len(df) - kijun_period].close


\* C27: the current price financial_orb_analysis works with, the one it
\* reports and the one of every analysed period, is the close of the last bar
\* of the series, the most recent one.
ValidPeriods ==
    {p \in DOMAIN orb_result.orb_analysis :
        orb_result.orb_analysis[p].status # "insufficient_data"}
C27_CurrentPriceIsLastClose ==
    OrbAnalysed =>
        /\ orb_result.current_price = df[Len(df)].close
        /\ \A p \in ValidPeriods :
               orb_result.orb_analysis[p].current_price = df[Len(df)].close

\* C28: in every analysed period, when some bar after the opening range
\* closes below orb_low * 0.999, at least three bars after it close below
\* orb_low and the position is below_range, the period has
\* breakout_confirmed = true and breakout_type = "bearish", whatever the
\* other bars after the range did.
PostBars(p) == {i \in df_rth(df) : df[i].datetime > p}
BearishHeld(p) ==
    LET r == orb_result.orb_analysis[p]
    IN  /\ \E i \in PostBars(p) : df[i].close * 1000 < r.orb_low * 999
        /\ Cardinality({i \in PostBars(p) : df[i].close < r.orb_low}) >= 3
        /\ r.position = "below_range"
C28_BearishBreakoutConfirmed ==
    OrbAnalysed =>
        \A p \in ValidPeriods :
            BearishHeld(p) =>
                /\ orb_result.orb_analysis[p].breakout_confirmed
                /\ orb_result.orb_analysis[p].breakout_type = "bearish"

\* C29: over the analysed periods of one result the range never shrinks as
\* the period grows; so contracting_ranges is true only when all the ranges
\* are equal, compression_ratio is then 1, and squeeze_detected is false in
\* every result.
RangesNeverShrink ==
    \A p, q \in ValidPeriods :
        p < q => orb_result.orb_analysis[p].orb_range <= orb_result.orb_analysis[q].orb_range
RangesEqual ==
    \A p, q \in ValidPeriods :
        orb_result.orb_analysis[p].orb_range = orb_result.orb_analysis[q].orb_range
C29_NoSqueeze ==
    OrbAnalysed =>
        /\ RangesNeverShrink
        /\ ~orb_result.orb_squeeze.squeeze_detected
        /\ Cardinality(ValidPeriods) >= 2 =>
               (orb_result.orb_squeeze.contracting_ranges =>
                   /\ RangesEqual
                   /\ orb_result.orb_squeeze.compression_ratio = 100)
\* Three analysed periods of one range that is not zero: contracting, and no
\* squeeze.
C29_Witness ==
    /\ OrbAnalysed
    /\ Cardinality(ValidPeriods) = 3
    /\ orb_result.orb_squeeze.contracting_ranges
    /\ orb_result.orb_analysis[1].orb_range > 0
    /\ ~orb_result.orb_squeeze.squeeze_detected

====
